---- MODULE Spec2Model ----
(***************************************************************************)
(* A model of amstramdam's geodesic kernel (game/geo.py) and of its        *)
(* socket connection handlers (events/connect.py).                         *)
(*                                                                         *)
(* Numbers.  A Python float is sampled on a two-level grid of integers:    *)
(*   - the lattice values, the whole multiples of Half, on which the       *)
(*     arithmetic of the kernel is exact (1.0 is Unit = 2 * Half);         *)
(*   - the tiny values 1 and -1, which stand for a non-zero float whose    *)
(*     magnitude is below half an ulp of every non-zero lattice value      *)
(*     (1e-17, say).  Only the sign of a tiny value is tracked.            *)
(* RoundF is the rounding of an exact result to this grid: a non-zero      *)
(* lattice part absorbs a tiny part, as a float addition does.  Signed     *)
(* zeros are not distinguished.  The sine and cosine of a lattice angle    *)
(* are taken exact; in the code a sine or cosine that is zero on the       *)
(* lattice is a float of magnitude about 1e-16, which decides a result     *)
(* only at a pole (the longitude there) and on the branch cut of atan2     *)
(* (an antipode), so the calls that are sampled below stay away from       *)
(* those (MoveSampled, AngleSampled).                                      *)
(*                                                                         *)
(* Units.  Degrees are held as degrees * Unit.  Radians are held in units  *)
(* of pi/2: the float pi/2 is Unit, 2*pi is 4 * Unit, so that the sines    *)
(* and cosines of the sampled angles are exactly -1, 0 or 1.  Kilometres   *)
(* are held in units of pi/2 km, so that distance / 6371.0 is a lattice    *)
(* angle when the distance is a whole number of quarter circumferences.    *)
(***************************************************************************)
EXTENDS Integers, Sequences, FiniteSets, TLC

VARIABLES heap, pyset, call, session, games, rooms, timers, emitted, exc, ev

vars == <<heap, pyset, call, session, games, rooms, timers, emitted, exc, ev>>
geoVars == <<heap, pyset, call>>
connVars == <<session, games, rooms, timers, emitted, exc, ev>>

-----------------------------------------------------------------------------
(* Bounds of the model *)

\* The grid's resolution: 0.5 is Half, 1.0 is Unit.
Half == 4
\* Input angles range over -MaxTurns .. MaxTurns full turns.
MaxTurns == 1
\* Input distances range over 0 .. MaxDist quarter circumferences.
MaxDist == 2
\* n_points ranges over 0 .. MaxN.
MaxN == 4
\* Length of the sequence given to vectorized_distance.
MaxLen == 2
\* Number of Point objects constructed.
MaxPoints == 2

-----------------------------------------------------------------------------
(* Float arithmetic on the grid *)

Unit == 2 * Half
None == 0 - 1
NaN == 0 - 1000000

Abs(v) == IF v < 0 THEN 0 - v ELSE v
Sgn(v) == IF v < 0 THEN 0 - 1 ELSE IF v > 0 THEN 1 ELSE 0
IsTiny(v) == v # 0 /\ Abs(v) < Half

\* Round an exact value to the grid: to the nearest lattice value, unless it
\* is below every lattice value, where it stays tiny (or zero).
RoundF(v) ==
    IF Abs(v) < Half THEN Sgn(v)
    ELSE ((2 * v + Half) \div (2 * Half)) * Half

FAdd(a, b) == RoundF(a + b)
FSub(a, b) == RoundF(a - b)
FMul(a, b) ==
    IF a = 0 \/ b = 0 THEN 0
    ELSE IF IsTiny(a) \/ IsTiny(b) THEN Sgn(a) * Sgn(b)
    ELSE RoundF((a * b) \div Unit)
FDiv(a, b) ==
    IF a = 0 THEN 0
    ELSE IF IsTiny(a) THEN Sgn(a) * Sgn(b)
    ELSE RoundF((a * Unit) \div b)

\* math.floor of a float, as a Python int.
Floor(v) == IF IsTiny(v) THEN (IF v < 0 THEN 0 - 1 ELSE 0) ELSE v \div Unit

-----------------------------------------------------------------------------
(* Trigonometry on the grid.  An angle is in units of pi/2 (Unit). *)

HalfPi == Unit
Pi == 2 * Unit
TwoPi == 4 * Unit

\* The quadrant of a lattice angle: its whole number of quarter turns mod 4.
Quadrant(r) == (r \div Unit) % 4

\* sin x = x and cos x = 1 to float precision for a tiny x.
Sin(r) ==
    IF IsTiny(r) THEN Sgn(r)
    ELSE CASE Quadrant(r) = 0 -> 0
           [] Quadrant(r) = 1 -> Unit
           [] Quadrant(r) = 2 -> 0
           [] OTHER -> 0 - Unit

Cos(r) ==
    IF IsTiny(r) THEN Unit
    ELSE CASE Quadrant(r) = 0 -> Unit
           [] Quadrant(r) = 1 -> 0
           [] Quadrant(r) = 2 -> 0 - Unit
           [] OTHER -> 0

\* asin on [-1, 1]; outside it math.asin raises and numpy.arcsin gives nan.
AsinInDomain(x) == Abs(x) <= Unit
Asin(x) ==
    IF IsTiny(x) THEN Sgn(x)
    ELSE IF x >= Unit THEN HalfPi
    ELSE IF x <= 0 - Unit THEN 0 - HalfPi
    ELSE 0

\* atan2(y, x) in (-pi, pi].  On the sampled inputs the kernel never calls it
\* with two non-zero arguments of comparable magnitude.
Atan2(y, x) ==
    IF y = 0 THEN (IF x < 0 THEN Pi ELSE 0)
    ELSE IF IsTiny(y) /\ x # 0 /\ ~IsTiny(x) THEN (IF x > 0 THEN Sgn(y) ELSE Sgn(y) * Pi)
    ELSE Sgn(y) * HalfPi

\* Python's float %: C fmod (exact, with the sign of a), then one rounded
\* addition of b when the signs of the remainder and of b differ.
Fmod(a, b) == Sgn(a) * (Abs(a) % Abs(b))
PyMod(a, b) ==
    IF Fmod(a, b) # 0 /\ ((b < 0) # (Fmod(a, b) < 0))
    THEN FAdd(Fmod(a, b), b)
    ELSE Fmod(a, b)

-----------------------------------------------------------------------------
(* geo.py *)

EarthRadius == 6371

\* math.radians and math.degrees: x * pi / 180 and x * 180 / pi.
Radians(d) == IF IsTiny(d) THEN Sgn(d) ELSE RoundF(d \div 90)
Degrees(r) == IF IsTiny(r) THEN Sgn(r) ELSE r * 90

to_rad(p) == <<Radians(p[1]), Radians(p[2])>>
to_deg(p) == <<Degrees(p[1]), Degrees(p[2])>>

normalize_angle(a) == PyMod(a, TwoPi)

angle_y(start, point) ==
    FMul(Sin(FSub(to_rad(point)[1], to_rad(start)[1])), Cos(to_rad(point)[2]))
angle_x(start, point) ==
    FSub(FMul(Cos(to_rad(start)[2]), Sin(to_rad(point)[2])),
         FMul(FMul(Sin(to_rad(start)[2]), Cos(to_rad(point)[2])),
              Cos(FSub(to_rad(point)[1], to_rad(start)[1]))))
angle(start, point) ==
    normalize_angle(Atan2(angle_y(start, point), angle_x(start, point)))

\* move with the bearing taken anticlockwise: the sign of sin(theta) lost.
move_anticlockwise(start, theta, distance) ==
    LET lam == to_rad(start)[1]
        phi == to_rad(start)[2]
        delta == FDiv(distance, EarthRadius * Unit)
        phi2 == Asin(FAdd(FMul(Sin(phi), Cos(delta)),
                          FMul(FMul(Cos(phi), Sin(delta)), Cos(theta))))
        lam2 == FSub(lam, Atan2(FMul(FMul(Sin(delta), Sin(theta)), Cos(phi)),
                                FSub(Cos(delta), FMul(Sin(phi), Sin(phi2)))))
    IN  to_deg(<<lam2, phi2>>)

\* move: math.asin raises ValueError outside [-1, 1] (move_asin_arg);
\* otherwise the pair returned is move.
move_asin_arg(start, theta, distance) ==
    LET phi == to_rad(start)[2]
        delta == FDiv(distance, EarthRadius * Unit)
    IN  FAdd(FMul(Sin(phi), Cos(delta)), FMul(FMul(Cos(phi), Sin(delta)), Cos(theta)))
move(start, theta, distance) ==
    LET lam == to_rad(start)[1]
        phi == to_rad(start)[2]
        delta == FDiv(distance, EarthRadius * Unit)
        phi2 == Asin(FAdd(FMul(Sin(phi), Cos(delta)),
                          FMul(FMul(Cos(phi), Sin(delta)), Cos(theta))))
        lam2 == FAdd(lam, Atan2(FMul(FMul(Sin(delta), Sin(theta)), Cos(phi)),
                                FSub(Cos(delta), FMul(Sin(phi), Sin(phi2)))))
    IN  to_deg(<<lam2, phi2>>)

move_given_angle(theta, start, distance) ==
    LET lam == to_rad(start)[1]
        phi == to_rad(start)[2]
        delta == FDiv(distance, EarthRadius * Unit)
        phi2 == Asin(FAdd(FMul(Sin(phi), Cos(delta)),
                          FMul(FMul(Cos(phi), Sin(delta)), Cos(theta))))
        lam2 == FAdd(lam, Atan2(FMul(FMul(Sin(delta), Sin(theta)), Cos(phi)),
                                FSub(Cos(delta), FMul(Sin(phi), Sin(phi2)))))
    IN  to_deg(<<lam2, phi2>>)

\* vectorized_circle.  full_length = 2 * math.pi * dist is evaluated only for
\* a zero or tiny dist, where it is zero or tiny whatever the positive factor
\* (TwoPiNumber is the number 2*pi rounded to the lattice: 6.5).
TwoPiNumber == 13 * Half
Every == Unit
circle_n_points(dist, n_points) ==
    IF n_points = None
    THEN Floor(FDiv(FMul(TwoPiNumber, dist), Every))
    ELSE n_points
\* The bearings counted from 1: np.arange(1, n_points + 1).
circle_theta_from_one(i, n) == (TwoPi * (i + 1)) \div n
\* thetas = 2 * math.pi * np.arange(0, n_points) / n_points, element i (from 0).
circle_theta(i, n) == (TwoPi * i) \div n
\* The bearings are lattice angles when n divides 4.
ThetasOnLattice(n) == n = 0 \/ (n > 0 /\ 4 % n = 0)
circle_point(center, dist, theta) ==
    LET lam == to_rad(center)[1]
        phi == to_rad(center)[2]
        delta == FDiv(dist, EarthRadius * Unit)
        arg == FAdd(FMul(Sin(phi), Cos(delta)),
                    FMul(FMul(Cos(phi), Sin(delta)), Cos(theta)))
        phi2 == Asin(arg)
        lam2 == FAdd(lam, Atan2(FMul(FMul(Sin(delta), Sin(theta)), Cos(phi)),
                                FSub(Cos(delta), FMul(Sin(phi), Sin(phi2)))))
    IN  IF AsinInDomain(arg) THEN <<Degrees(lam2), Degrees(phi2)>> ELSE <<NaN, NaN>>
vectorized_circle(center, dist, n_points) ==
    LET n == circle_n_points(dist, n_points)
    IN  [k \in 1..n |-> circle_point(center, dist, circle_theta(k - 1, n))]

\* vectorized_distance.  np.deg2rad(points).transpose(): the array of an empty
\* list has shape (0,) and its transpose is itself; the array of n >= 1 pairs
\* has shape (n, 2) and its transpose has the two rows lons and lats.
deg2rad_transpose(points) ==
    IF points = <<>> THEN <<>>
    ELSE << [k \in 1..Len(points) |-> Radians(points[k][1])],
            [k \in 1..Len(points) |-> Radians(points[k][2])] >>
\* lons, lats = ...: unpacking anything but two rows raises ValueError.
UnpackRaises(rows) == Len(rows) # 2
\* np.sin(x / 2) ** 2
SinHalfSq(x) ==
    IF IsTiny(x) THEN 1
    ELSE CASE Quadrant(x) = 0 -> 0
           [] Quadrant(x) = 1 -> Half
           [] Quadrant(x) = 2 -> Unit
           [] OTHER -> Half
\* np.arctan2(np.sqrt(a), np.sqrt(1 - a)): nan outside [0, 1].
ArctanSqrt(a) ==
    IF a < 0 \/ a > Unit THEN NaN
    ELSE IF IsTiny(a) THEN 1
    ELSE a
haversine_a(lon, lat, lon_k, lat_k) ==
    FAdd(SinHalfSq(FSub(lat_k, lat)),
         FMul(FMul(Cos(lat), Cos(lat_k)), SinHalfSq(FSub(lon_k, lon))))
haversine_km(lon, lat, lon_k, lat_k) ==
    IF ArctanSqrt(haversine_a(lon, lat, lon_k, lat_k)) = NaN THEN NaN
    ELSE FMul(FMul(EarthRadius * Unit, 2 * Unit),
              ArctanSqrt(haversine_a(lon, lat, lon_k, lat_k)))
vectorized_distance(ref, points) ==
    LET rows == deg2rad_transpose(points)
        lons == rows[1]
        lats == rows[2]
        lon == to_rad(ref)[1]
        lat == to_rad(ref)[2]
    IN  [k \in 1..Len(lons) |-> haversine_km(lon, lat, lons[k], lats[k])]

\* class Point: an object is its index in heap.  The class defines __hash__
\* and no __eq__, so == is object.__eq__: identity.
\* The constructor with its two fields exchanged.
Point_init_swapped(lon, lat) == [lon |-> lat, lat |-> lon]
Point_init(lon, lat) == [lon |-> lon, lat |-> lat]
Point_from_latlon(lat, lon) == Point_init(lon, lat)
Point_eq(p, q) == p = q
tuple_hash(t) == (t[1] * 31 + t[2]) % 65536
Point_hash(obj) == tuple_hash(<<obj.lon, obj.lat>>)
\* set.add: an element is already in the set when one of equal hash is ==.
set_add(objs, s, p) ==
    IF \E q \in s : Point_hash(objs[q]) = Point_hash(objs[p]) /\ Point_eq(q, p)
    THEN s
    ELSE s \cup {p}

-----------------------------------------------------------------------------
(* Inputs of the kernel's calls *)

\* Longitudes in (-180, 180] and latitudes in [-90, 90]: the quarter-turn
\* lattice, and a longitude a tiny step west or east of Greenwich.
ValidLons == {k * 90 * Unit : k \in (0 - 1)..2} \cup {0 - 1, 1}
ValidLats == {k * 90 * Unit : k \in (0 - 1)..1}
ValidPoints == ValidLons \X ValidLats
IsValidPoint(p) ==
    /\ p[1] > (0 - 180) * Unit /\ p[1] <= 180 * Unit
    /\ p[2] >= (0 - 90) * Unit /\ p[2] <= 90 * Unit
\* Coordinates given to the constructor of Point, in range or not.
CtorLons == {0, 180 * Unit, 270 * Unit}
CtorLats == {0, 90 * Unit, 180 * Unit}
Thetas == {k * Unit : k \in (0 - 4 * MaxTurns)..(4 * MaxTurns)} \cup {0 - 1, 1}
Dists == {k * EarthRadius * Unit : k \in 0..MaxDist} \cup {1}
NPoints == {n \in 0..MaxN : ThetasOnLattice(n)}
\* Reference points and candidate pairs of vectorized_distance.
RefPoints == {<<0, 0>>, <<90 * Unit, 0>>, <<0, 90 * Unit>>}
CandidatePoints == {<<0, 0>>, <<180 * Unit, 0>>, <<0 - 1, 0>>, <<0, (0 - 90) * Unit>>}
SeqsUpTo(S, n) == UNION {[1..m -> S] : m \in 0..n}

\* The calls whose result does not rest on the rounding noise of a sine or
\* cosine at a lattice zero: neither end at a pole, and no antipode.
NonPolar(p) == Abs(p[2]) # 90 * Unit
MoveSampled(start, theta, distance) ==
    LET delta == FDiv(distance, EarthRadius * Unit)
    IN  /\ NonPolar(start)
        /\ delta = 0 \/ Sin(delta) # 0
        /\ NonPolar(move(start, theta, distance))
AngleSampled(start, point) ==
    LET d == FSub(to_rad(point)[1], to_rad(start)[1])
    IN  \/ start = point
        \/ /\ d = 0 \/ Sin(d) # 0
           /\ ~NonPolar(point) => d = 0
           /\ ~NonPolar(start) => point[2] = 0

NoCall == [op |-> "none", args |-> <<>>, raised |-> "none", out |-> <<>>]
Returned(op, args, out) == [op |-> op, args |-> args, raised |-> "none", out |-> out]
Raised(op, args, e) == [op |-> op, args |-> args, raised |-> e, out |-> <<>>]

-----------------------------------------------------------------------------
(* One action per call of the kernel *)

DoNormalizeAngle(theta) ==
    /\ call.op = "none"
    /\ call' = Returned("normalize_angle", <<theta>>, normalize_angle(theta))
    /\ UNCHANGED <<heap, pyset, connVars>>

DoAngle(start, point) ==
    /\ call.op = "none"
    /\ AngleSampled(start, point)
    /\ call' = Returned("angle", <<start, point>>, angle(start, point))
    /\ UNCHANGED <<heap, pyset, connVars>>

DoMove(start, theta, distance) ==
    /\ call.op = "none"
    /\ MoveSampled(start, theta, distance)
    /\ call' = IF AsinInDomain(move_asin_arg(start, theta, distance))
               THEN Returned("move", <<start, theta, distance>>,
                             move(start, theta, distance))
               ELSE Raised("move", <<start, theta, distance>>, "ValueError")
    /\ UNCHANGED <<heap, pyset, connVars>>

DoMoveGivenAngle(theta, start, distance) ==
    /\ call.op = "none"
    /\ MoveSampled(start, theta, distance)
    /\ call' = IF AsinInDomain(move_asin_arg(start, theta, distance))
               THEN Returned("move_given_angle", <<theta, start, distance>>,
                             move_given_angle(theta, start, distance))
               ELSE Raised("move_given_angle", <<theta, start, distance>>, "ValueError")
    /\ UNCHANGED <<heap, pyset, connVars>>

\* n_points is derived (None) for the radii whose circumference is sampled.
DoVectorizedCircle(center, dist, n_points) ==
    /\ call.op = "none"
    /\ n_points = None => (dist = 0 \/ IsTiny(dist))
    /\ \A k \in 1..circle_n_points(dist, n_points) :
          MoveSampled(center, circle_theta(k - 1, circle_n_points(dist, n_points)), dist)
    /\ call' = Returned("vectorized_circle", <<center, dist, n_points>>,
                        vectorized_circle(center, dist, n_points))
    /\ UNCHANGED <<heap, pyset, connVars>>

DoVectorizedDistance(ref, points) ==
    /\ call.op = "none"
    /\ call' = IF UnpackRaises(deg2rad_transpose(points))
               THEN Raised("vectorized_distance", <<ref, points>>, "ValueError")
               ELSE Returned("vectorized_distance", <<ref, points>>,
                             vectorized_distance(ref, points))
    /\ UNCHANGED <<heap, pyset, connVars>>

\* The caller takes the result; the kernel is ready for the next call.
Return ==
    /\ call.op # "none"
    /\ call' = NoCall
    /\ UNCHANGED <<heap, pyset, connVars>>

NextGeo ==
    \/ \E theta \in Thetas : DoNormalizeAngle(theta)
    \/ \E start \in ValidPoints, point \in ValidPoints : DoAngle(start, point)
    \/ \E start \in ValidPoints, theta \in Thetas, d \in Dists : DoMove(start, theta, d)
    \/ \E start \in ValidPoints, theta \in Thetas, d \in Dists :
          DoMoveGivenAngle(theta, start, d)
    \/ \E center \in ValidPoints, d \in Dists, n \in NPoints \cup {None} :
          DoVectorizedCircle(center, d, n)
    \/ \E ref \in RefPoints, points \in SeqsUpTo(CandidatePoints, MaxLen) :
          DoVectorizedDistance(ref, points)
    \/ Return

-----------------------------------------------------------------------------
(* Point objects and a set of them *)

NewPoint(lon, lat) ==
    /\ Len(heap) < MaxPoints
    /\ heap' = Append(heap, Point_init(lon, lat))
    /\ call' = Returned("Point", <<lon, lat>>, Len(heap) + 1)
    /\ UNCHANGED <<pyset, connVars>>

FromLatLon(lat, lon) ==
    /\ Len(heap) < MaxPoints
    /\ heap' = Append(heap, Point_from_latlon(lat, lon))
    /\ call' = Returned("from_latlon", <<lat, lon>>, Len(heap) + 1)
    /\ UNCHANGED <<pyset, connVars>>

SetAdd(p) ==
    /\ pyset' = set_add(heap, pyset, p)
    /\ call' = Returned("set.add", <<p>>, <<>>)
    /\ UNCHANGED <<heap, connVars>>

NextPoint ==
    \/ \E lon \in CtorLons, lat \in CtorLats : NewPoint(lon, lat)
    \/ \E lon \in CtorLons, lat \in CtorLats : FromLatLon(lat, lon)
    \/ \E p \in DOMAIN heap : SetAdd(p)

-----------------------------------------------------------------------------
(* connect.py: the handlers of the 'connection' and 'disconnect' events *)

\* Number of browser sessions.
MaxSessions == 2
Sessions == 1..MaxSessions
\* "lobby" is open, "daily" is permanent, "ghost" is unknown to the manager.
GameNames == {"lobby", "daily", "ghost"}
Pseudos == {"", "zoe"}

\* A Python dict: a function from its keys.
HasKey(d, k) == k \in DOMAIN d
DelKey(d, k) == [x \in DOMAIN d \ {k} |-> d[x]]
SetKey(d, k, v) == [x \in DOMAIN d \cup {k} |-> IF x = k THEN v ELSE d[x]]

\* The manager: its games by name.
manager_exists(name) == name \in DOMAIN games
manager_remove_game(name) == DelKey(games, name)
\* game.add_player without a player makes a new one.
new_player == CHOOSE p \in Sessions : \A s \in Sessions : HasKey(session[s], "player") => session[s].player # p
game_add_player(game, player) == [game EXCEPT !.players = @ \cup {player}]
game_remove_player(game, player) == [game EXCEPT !.players = @ \ {player}]

\* What a handler leaves behind: the state before it, for the properties.
Before == [session |-> session, games |-> games, rooms |-> rooms, timers |-> timers]
Emit(event, to, pseudo) == [event |-> event, to |-> to, pseudo |-> pseudo]
\* game.add_player names a new player that gives no pseudo.
given_pseudo(s, pseudo) ==
    IF pseudo = "" /\ ~HasKey(session[s], "player") THEN "anonymous" ELSE pseudo

\* init_game, lines 13-64.
init_game(s, pseudo) ==
    IF ~HasKey(session[s], "game")
    THEN \* line 14: session["game"] raises
         /\ exc' = "KeyError"
         /\ emitted' = <<>>
         /\ UNCHANGED <<session, games, rooms, timers>>
    ELSE LET game_name == session[s].game IN
         IF ~manager_exists(game_name)
         THEN \* lines 17-26: the redirect, then the room and the KeyError
              /\ session' = [session EXCEPT ![s] = DelKey(@, "game")]
              /\ emitted' = <<Emit("redirect", "sender", "")>>
              /\ rooms' = rooms \cup {<<s, game_name>>}
              /\ exc' = "KeyError"
              /\ UNCHANGED <<games, timers>>
         ELSE LET player == IF HasKey(session[s], "player")
                            THEN session[s].player ELSE new_player
              IN  /\ rooms' = rooms \cup {<<s, game_name>>}
                  /\ games' = [games EXCEPT ![game_name] = game_add_player(@, player)]
                  /\ session' = [session EXCEPT ![s] = SetKey(@, "player", player)]
                  /\ emitted' = <<Emit("init", "sender", given_pseudo(s, pseudo)),
                                  Emit("new-player", game_name, given_pseudo(s, pseudo))>>
                  /\ exc' = "none"
                  /\ UNCHANGED timers

\* The test of line 82 without its second half.
game_is_empty(game) == game.players = {}
\* if not game.players and not game.is_permanent, line 82.
game_is_abandoned(game) == game.players = {} /\ ~game.is_permanent

\* leave_game, lines 68-87.
leave_game(s) ==
    IF ~HasKey(session[s], "player")
    THEN /\ exc' = "none"
         /\ emitted' = <<>>
         /\ UNCHANGED <<session, games, rooms, timers>>
    ELSE IF ~HasKey(session[s], "game")
    THEN \* line 72: session["game"] raises
         /\ exc' = "KeyError"
         /\ emitted' = <<>>
         /\ UNCHANGED <<session, games, rooms, timers>>
    ELSE LET player == session[s].player
             game_name == session[s].game
         IN  IF ~manager_exists(game_name)
             THEN /\ exc' = "none"
                  /\ emitted' = <<>>
                  /\ UNCHANGED <<session, games, rooms, timers>>
             ELSE LET game == game_remove_player(games[game_name], player)
                      left == rooms \ {<<s, game_name>>}
                  IN  /\ emitted' = <<Emit("player-left", game_name, "")>>
                      /\ exc' = "none"
                      /\ UNCHANGED session
                      /\ IF game_is_abandoned(game)
                         THEN /\ games' = manager_remove_game(game_name)
                              /\ rooms' = {m \in left : m[2] # game_name}
                              /\ timers' = timers \ {game_name}
                         ELSE /\ games' = [games EXCEPT ![game_name] = game]
                              /\ rooms' = left
                              /\ UNCHANGED timers

Connection(s, pseudo) ==
    /\ ev' = [type |-> "connection", s |-> s, before |-> Before]
    /\ init_game(s, pseudo)
    /\ UNCHANGED geoVars

Disconnect(s) ==
    /\ ev' = [type |-> "disconnect", s |-> s, before |-> Before]
    /\ leave_game(s)
    /\ UNCHANGED geoVars

NextConn ==
    \/ \E s \in Sessions, pseudo \in Pseudos : Connection(s, pseudo)
    \/ \E s \in Sessions : Disconnect(s)

-----------------------------------------------------------------------------
(* Specifications *)

\* The kernel has served no call and no Point exists; the handlers' state is
\* at rest: every session on the open game, nobody connected.
InitGeo ==
    /\ heap = <<>>
    /\ pyset = {}
    /\ call = NoCall
    /\ session = [s \in Sessions |-> [game |-> "lobby"]]
    /\ games = [g \in {"lobby", "daily"} |->
                   [players |-> {}, is_permanent |-> (g = "daily")]]
    /\ rooms = {}
    /\ timers = {"lobby", "daily"}
    /\ emitted = <<>>
    /\ exc = "none"
    /\ ev = [type |-> "none"]

\* The page route has stored a game name in every session, known to the
\* manager or not; the manager holds an open game and a permanent one, each
\* with its timers entry.
InitConn ==
    /\ heap = <<>>
    /\ pyset = {}
    /\ call = NoCall
    /\ session \in [Sessions -> {[game |-> g] : g \in GameNames}]
    /\ games = [g \in {"lobby", "daily"} |->
                   [players |-> {}, is_permanent |-> (g = "daily")]]
    /\ rooms = {}
    /\ timers = {"lobby", "daily"}
    /\ emitted = <<>>
    /\ exc = "none"
    /\ ev = [type |-> "none"]

Spec == InitGeo /\ [][NextGeo]_vars
SpecPoint == InitGeo /\ [][NextPoint]_vars
SpecConn == InitConn /\ [][NextConn]_vars

-----------------------------------------------------------------------------
(* Properties *)

FieldsEqual(p, q) == heap[p].lon = heap[q].lon /\ heap[p].lat = heap[q].lat
CoordsOf(p) == <<heap[p].lon, heap[p].lat>>

\* C1: two Points are == exactly when their lon and lat are equal, and Points
\* of equal fields have equal hashes, so that a set holds one Point per pair
\* of coordinates.
C1_EqualityByValue ==
    /\ \A p \in DOMAIN heap, q \in DOMAIN heap :
          /\ Point_eq(p, q) <=> FieldsEqual(p, q)
          /\ FieldsEqual(p, q) => Point_hash(heap[p]) = Point_hash(heap[q])
    /\ \A p \in pyset, q \in pyset : FieldsEqual(p, q) => p = q

\* C2 (as claimed): no Point with an out-of-range coordinate ever exists.
C2_NoInvalidPointExists ==
    \A p \in DOMAIN heap : IsValidPoint(CoordsOf(p))

\* C2 (amended): constructing a Point never fails and stores the longitude
\* and the latitude it is given, in range or not: Point validates nothing.
C2_ConstructorStoresAsGiven ==
    /\ call.op = "Point" =>
          /\ call.raised = "none"
          /\ heap[call.out] = [lon |-> call.args[1], lat |-> call.args[2]]
    /\ call.op = "from_latlon" =>
          /\ call.raised = "none"
          /\ heap[call.out] = [lon |-> call.args[2], lat |-> call.args[1]]

\* A Point was constructed from a longitude of 270 degrees and exists.
C2_OutOfRangePointBuilt ==
    /\ call.op = "Point"
    /\ call.args[1] = 270 * Unit
    /\ ~IsValidPoint(CoordsOf(call.out))

\* C3: normalize_angle(theta) is in [0, 2*pi), 2*pi excluded, and equals
\* normalize_angle(theta + 2*pi), for every theta.
C3_NormalizedRange ==
    call.op = "normalize_angle" =>
        /\ call.out >= 0
        /\ call.out < TwoPi
        /\ call.out = normalize_angle(FAdd(call.args[1], TwoPi))

\* C4: vectorized_distance returns, without error, one haversine distance per
\* element of points, in order, for every sequence, the empty one included.
C4_DistancePerPoint ==
    call.op = "vectorized_distance" =>
        /\ call.raised = "none"
        /\ Len(call.out) = Len(call.args[2])
        /\ \A k \in 1..Len(call.args[2]) :
              call.out[k] = haversine_km(Radians(call.args[1][1]), Radians(call.args[1][2]),
                                         Radians(call.args[2][k][1]), Radians(call.args[2][k][2]))

C6_DestinationsValid ==
    /\ (call.op \in {"move", "move_given_angle"} /\ call.raised = "none") =>
          IsValidPoint(call.out)
    /\ call.op = "vectorized_circle" =>
          \A k \in 1..Len(call.out) : IsValidPoint(call.out[k])

\* C7: angle(p, p) is 0, and angle(start, point) is in [0, 2*pi) and raises
\* nothing for every pair of valid points.
C7_AngleDefined ==
    call.op = "angle" =>
        /\ call.raised = "none"
        /\ call.args[1] = call.args[2] => call.out = 0
        /\ call.out >= 0
        /\ call.out < TwoPi

SessionBefore == ev.before.session[ev.s]
UnknownGame ==
    /\ ev.type = "connection"
    /\ HasKey(SessionBefore, "game")
    /\ SessionBefore.game \notin DOMAIN ev.before.games

\* C9: a 'connection' for a game unknown to the manager only removes 'game'
\* from the session and emits one 'redirect': no room joined, no player
\* added, no 'init', no 'new-player', no exception.
C9_UnknownGameOnlyRedirects ==
    UnknownGame =>
        /\ ~HasKey(session[ev.s], "game")
        /\ emitted = <<Emit("redirect", "sender", "")>>
        /\ rooms = ev.before.rooms
        /\ games = ev.before.games
        /\ exc = "none"

NothingChanged ==
    /\ session = ev.before.session
    /\ games = ev.before.games
    /\ rooms = ev.before.rooms
    /\ timers = ev.before.timers
    /\ emitted = <<>>
\* What a disconnect does to the game the session plays in.
GameLeft(name, player) ==
    LET game == ev.before.games[name]
        rest == game.players \ {player}
        removed == name \notin DOMAIN games
    IN  /\ exc = "none"
        /\ emitted = <<Emit("player-left", name, "")>>
        /\ removed <=> (rest = {} /\ ~game.is_permanent)
        /\ removed => /\ name \notin timers
                      /\ \A m \in rooms : m[2] # name
        /\ ~removed => /\ games[name].players = rest
                       /\ timers = ev.before.timers
        /\ \A g \in DOMAIN games : g # name => games[g] = ev.before.games[g]

\* C10 (as claimed): a disconnect by a session that holds a player removes
\* the player and broadcasts 'player-left', and removes the game exactly when
\* it is left empty and is not permanent; without a player, nothing changes.
C10_DisconnectRemovesPlayer ==
    ev.type = "disconnect" =>
        IF HasKey(SessionBefore, "player")
        THEN /\ HasKey(SessionBefore, "game")
             /\ SessionBefore.game \in DOMAIN ev.before.games
             /\ GameLeft(SessionBefore.game, SessionBefore.player)
        ELSE NothingChanged /\ exc = "none"

\* C10 (amended): that holds when the session's 'game' names a game the
\* manager still knows; when the manager no longer knows it, or the session
\* holds no player, the disconnect changes nothing; when the session holds a
\* player and no 'game', it raises KeyError and changes nothing.
C10_DisconnectEffect ==
    ev.type = "disconnect" =>
        IF ~HasKey(SessionBefore, "player") THEN NothingChanged /\ exc = "none"
        ELSE IF ~HasKey(SessionBefore, "game") THEN NothingChanged /\ exc = "KeyError"
        ELSE IF SessionBefore.game \notin DOMAIN ev.before.games
        THEN NothingChanged /\ exc = "none"
        ELSE GameLeft(SessionBefore.game, SessionBefore.player)

\* The last player of the open game has left, and the game is gone.
C10_LastPlayerLeft ==
    /\ ev.type = "disconnect"
    /\ "lobby" \in DOMAIN ev.before.games
    /\ "lobby" \notin DOMAIN games

====
